---------------------------- MODULE Spec2Model ----------------------------
(***************************************************************************)
(* A model of the two command-line stages of ud_search:                    *)
(*                                                                         *)
(*   find-neighbors  src/code/extract_neighborhood_genes.py                *)
(*   summarize       src/code/summarize_results.py                         *)
(*                                                                         *)
(* One behaviour is one invocation of one of the two commands.  The input  *)
(* files are fixed by the initial state; the find-neighbors stage runs its *)
(* four calls of main() one after the other, the summarize stage reads its *)
(* table row by row and then writes its two summaries.                     *)
(*                                                                         *)
(* Text that the code orders, parses as a number or tests for emptiness is *)
(* a sequence of character codes: the digits '0'..'9' are the codes 0..9   *)
(* and the code 10 is a letter, which sorts after every digit.            *)
(* Identifiers that the code only compares for equality are TLA+ strings.  *)
(***************************************************************************)
EXTENDS Integers, Sequences, FiniteSets, TLC

VARIABLES
    cmd,                \* the command invoked: "find-neighbors" or "summarize"
    pc,                 \* position of the invoked command
    fasta_file,         \* args.fasta: [readable, lines]
    annotation_dir,     \* args.annotations: the .gff files in os.walk order
    window_size,        \* args.window
    genes_of_interest,  \* main(): result of parse_goi_fasta
    annotations_db,     \* main(): result of load_all_annotations
    neighbors,          \* main(): result of find_neighbors
    provenance,         \* for each element of neighbors, <<GOI index, feature index>>
    output_csv,         \* the file at args.output
    input_file,         \* args.input: [readable, fieldnames]
    rows_read,          \* how many data rows the csv reader has yielded
    rows_seen,          \* the set of <<goi_strain, neighbor_id>> values read
    strain_data,        \* summarize_neighbors: strain -> set of neighbor ids
    gene_data,          \* summarize_neighbors: neighbor id -> set of strains
    strains_csv,        \* the file at args.output_strains
    genes_csv           \* the file at args.output_genes

vars == <<cmd, pc, fasta_file, annotation_dir, window_size, genes_of_interest,
          annotations_db, neighbors, provenance, output_csv, input_file,
          rows_read, rows_seen, strain_data, gene_data, strains_csv, genes_csv>>

findVars == <<fasta_file, annotation_dir, window_size, genes_of_interest,
              annotations_db, neighbors, provenance, output_csv>>

sumVars == <<input_file, rows_read, rows_seen, strain_data, gene_data,
             strains_csv, genes_csv>>

-----------------------------------------------------------------------------
(* Bounds of the model.                                                    *)

MaxCoord == 3

MaxWindow == 2

MaxLines == 2

MaxRows == 2

MaxFiles == 2

MaxTableRows == 4

-----------------------------------------------------------------------------
(* Text.                                                                   *)

Digits == 0..9

TextX == <<10>>

IsDigits(t) == Len(t) > 0 /\ \A i \in 1..Len(t) : t[i] \in Digits

RECURSIVE DigitPrefix(_)
DigitPrefix(t) ==
    IF t = <<>> \/ Head(t) \notin Digits THEN <<>>
    ELSE <<Head(t)>> \o DigitPrefix(Tail(t))

RECURSIVE int(_)
int(t) == IF t = <<>> THEN 0 ELSE 10 * int(SubSeq(t, 1, Len(t) - 1)) + t[Len(t)]

min(a, b) == IF a <= b THEN a ELSE b

max(a, b) == IF a >= b THEN a ELSE b

EmptyDict == <<>>

NoFile == [exists |-> FALSE, header |-> <<>>, rows |-> <<>>]

File(header, rows) == [exists |-> TRUE, header |-> header, rows |-> rows]

-----------------------------------------------------------------------------
(* parse_goi_fasta.  A line of the FASTA file is                           *)
(*   [gt, strain, contig, start, end]                                      *)
(* and stands for  >strain|contig=contig|...SubjectStart=start_SubjectEnd= *)
(* end  when gt holds, and for a line of sequence data otherwise.          *)

HEADER_REGEX(line) ==
    /\ line.strain # ""
    /\ line.contig # ""
    /\ IsDigits(line.start)
    /\ DigitPrefix(line.end) # <<>>

RECURSIVE parse_goi_fasta(_)
parse_goi_fasta(lines) ==
    IF lines = <<>> THEN <<>>
    ELSE LET line == Head(lines)
             start == int(line.start)
             end == int(DigitPrefix(line.end))
         IN  IF line.gt /\ HEADER_REGEX(line)
             THEN <<[strain |-> line.strain,
                     contig |-> line.contig,
                     start  |-> min(start, end),
                     end    |-> max(start, end),
                     header |-> line]>> \o parse_goi_fasta(Tail(lines))
             ELSE parse_goi_fasta(Tail(lines))

-----------------------------------------------------------------------------
(* parse_gff.  A line of a .gff file is [skip, parts]: skip holds for a    *)
(* comment or blank line, parts are the tab-separated fields.  The         *)
(* attribute field is a sequence of [key, value], joined by ";" in the     *)
(* file.  int() of a field that is not a number raises ValueError, which   *)
(* nothing catches: fault.                                                 *)

RECURSIVE Attribute(_, _)
Attribute(attributes_str, key) ==
    IF attributes_str = <<>> THEN "N/A"
    ELSE IF Head(attributes_str).key = key THEN Head(attributes_str).value
    ELSE Attribute(Tail(attributes_str), key)

Put(d, k, v) == [x \in DOMAIN d \cup {k} |-> IF x = k THEN v ELSE d[x]]

AppendTo(contig_db, contig, gene) ==
    IF contig \in DOMAIN contig_db
    THEN Put(contig_db, contig, Append(contig_db[contig], gene))
    ELSE Put(contig_db, contig, <<gene>>)

RECURSIVE parse_gff_from(_, _)
parse_gff_from(lines, contig_db) ==
    IF lines = <<>> THEN [fault |-> FALSE, contig_db |-> contig_db]
    ELSE LET line == Head(lines)
             parts == line.parts
         IN  IF line.skip THEN parse_gff_from(Tail(lines), contig_db)
             ELSE IF Len(parts) < 9 THEN parse_gff_from(Tail(lines), contig_db)
             ELSE IF parts[3] \notin {"gene", "CDS"}
                  THEN parse_gff_from(Tail(lines), contig_db)
             ELSE IF ~IsDigits(parts[4]) \/ ~IsDigits(parts[5])
                  THEN [fault |-> TRUE, contig_db |-> contig_db]
             ELSE parse_gff_from(Tail(lines),
                      AppendTo(contig_db, parts[1],
                          [type    |-> parts[3],
                           start   |-> int(parts[4]),
                           end     |-> int(parts[5]),
                           strand  |-> parts[7],
                           id      |-> Attribute(parts[9], "ID"),
                           product |-> Attribute(parts[9], "product")]))

parse_gff(gff_file) == parse_gff_from(gff_file.lines, EmptyDict)

-----------------------------------------------------------------------------
(* load_all_annotations.  A file of the walk is [strain, lines], strain    *)
(* being the base name of its directory.                                   *)

StoreStrainMerged(db, strain_id, contig_db) ==
    IF strain_id \in DOMAIN db
    THEN Put(db, strain_id,
             [c \in DOMAIN db[strain_id] \cup DOMAIN contig_db |->
                 IF c \in DOMAIN contig_db THEN contig_db[c] ELSE db[strain_id][c]])
    ELSE Put(db, strain_id, contig_db)

StoreStrain(db, strain_id, contig_db) == Put(db, strain_id, contig_db)

RECURSIVE load_from(_, _)
load_from(files, db) ==
    IF files = <<>> THEN [fault |-> FALSE, db |-> db]
    ELSE LET parsed == parse_gff(Head(files))
         IN  IF parsed.fault THEN [fault |-> TRUE, db |-> db]
             ELSE load_from(Tail(files),
                            StoreStrain(db, Head(files).strain, parsed.contig_db))

load_all_annotations(files) == load_from(files, EmptyDict)

-----------------------------------------------------------------------------
(* find_neighbors.  goi_center, window_start, window_end and gene_center   *)
(* are halves of integers and Python's "/" keeps them exact; the model     *)
(* holds each of them doubled.                                             *)

IsSelfGeneOnly(goi, gene) ==
    gene.start = goi.start /\ gene.end = goi.end /\ gene.type = "gene"

IsSelf(goi, gene) == gene.start = goi.start /\ gene.end = goi.end

WithinWindowTruncated(goi, gene, window) ==
    LET goi_center == (goi.start + goi.end) \div 2
        gene_center == (gene.start + gene.end) \div 2
    IN  goi_center - window <= gene_center /\ gene_center <= goi_center + window

WithinWindow(goi, gene, window) ==
    LET goi_center2 == goi.start + goi.end
        window_start2 == goi_center2 - 2 * window
        window_end2 == goi_center2 + 2 * window
        gene_center2 == gene.start + gene.end
    IN  window_start2 <= gene_center2 /\ gene_center2 <= window_end2

NeighborRecord(goi, gene) ==
    [goi_strain       |-> goi.strain,
     goi_contig       |-> goi.contig,
     goi_start        |-> goi.start,
     goi_end          |-> goi.end,
     goi_header       |-> goi.header,
     neighbor_id      |-> gene.id,
     neighbor_type    |-> gene.type,
     neighbor_start   |-> gene.start,
     neighbor_end     |-> gene.end,
     neighbor_strand  |-> gene.strand,
     neighbor_product |-> gene.product]

EmitFirst(results, entry) == <<entry>> \o results

Emit(results, entry) == Append(results, entry)

RECURSIVE scan_contig(_, _, _, _, _, _)
scan_contig(goi, g, all_genes_on_contig, k, window, results) ==
    IF k > Len(all_genes_on_contig) THEN results
    ELSE LET gene == all_genes_on_contig[k]
         IN  IF IsSelf(goi, gene)
             THEN scan_contig(goi, g, all_genes_on_contig, k + 1, window, results)
             ELSE IF WithinWindow(goi, gene, window)
             THEN scan_contig(goi, g, all_genes_on_contig, k + 1, window,
                      Emit(results, [record |-> NeighborRecord(goi, gene),
                                     from   |-> <<g, k>>]))
             ELSE scan_contig(goi, g, all_genes_on_contig, k + 1, window, results)

RECURSIVE find_neighbors_from(_, _, _, _, _)
find_neighbors_from(gois, g, db, window, results) ==
    IF g > Len(gois) THEN results
    ELSE LET goi == gois[g]
         IN  IF goi.strain \notin DOMAIN db
             THEN find_neighbors_from(gois, g + 1, db, window, results)
             ELSE IF goi.contig \notin DOMAIN db[goi.strain]
             THEN find_neighbors_from(gois, g + 1, db, window, results)
             ELSE find_neighbors_from(gois, g + 1, db, window,
                      scan_contig(goi, g, db[goi.strain][goi.contig], 1,
                                  window, results))

find_neighbors(gois, db, window) == find_neighbors_from(gois, 1, db, window, <<>>)

-----------------------------------------------------------------------------
(* write_output_csv.  csv.DictWriter writes, for each result, its values   *)
(* in the order of the headers.                                            *)

headers == <<"goi_strain", "goi_contig", "goi_start", "goi_end",
             "neighbor_id", "neighbor_type", "neighbor_start", "neighbor_end",
             "neighbor_strand", "neighbor_product", "goi_header">>

CsvRow(result) == [i \in 1..Len(headers) |-> result[headers[i]]]

write_output_csv_always(results, old) ==
    File(headers, [i \in 1..Len(results) |-> CsvRow(results[i])])

write_output_csv(results, old) ==
    IF results = <<>> THEN old
    ELSE File(headers, [i \in 1..Len(results) |-> CsvRow(results[i])])

-----------------------------------------------------------------------------
(* main() of extract_neighborhood_genes.py.  An exception that no handler  *)
(* catches ends the process with a traceback: pc = "fault".                *)

ParseGoiFasta ==
    /\ cmd = "find-neighbors"
    /\ pc = "parse_goi_fasta"
    /\ IF fasta_file.readable
       THEN /\ genes_of_interest' = parse_goi_fasta(fasta_file.lines)
            /\ pc' = "load_all_annotations"
       ELSE /\ pc' = "fault"
            /\ UNCHANGED genes_of_interest
    /\ UNCHANGED <<cmd, fasta_file, annotation_dir, window_size, annotations_db,
                   neighbors, provenance, output_csv, sumVars>>

LoadAllAnnotations ==
    /\ cmd = "find-neighbors"
    /\ pc = "load_all_annotations"
    /\ LET loaded == load_all_annotations(annotation_dir)
       IN  IF loaded.fault
           THEN /\ pc' = "fault"
                /\ UNCHANGED annotations_db
           ELSE /\ annotations_db' = loaded.db
                /\ pc' = "find_neighbors"
    /\ UNCHANGED <<cmd, fasta_file, annotation_dir, window_size, genes_of_interest,
                   neighbors, provenance, output_csv, sumVars>>

FindNeighbors ==
    /\ cmd = "find-neighbors"
    /\ pc = "find_neighbors"
    /\ LET results == find_neighbors(genes_of_interest, annotations_db, window_size)
       IN  /\ neighbors' = [i \in 1..Len(results) |-> results[i].record]
           /\ provenance' = [i \in 1..Len(results) |-> results[i].from]
    /\ pc' = "write_output_csv"
    /\ UNCHANGED <<cmd, fasta_file, annotation_dir, window_size, genes_of_interest,
                   annotations_db, output_csv, sumVars>>

WriteOutputCsv ==
    /\ cmd = "find-neighbors"
    /\ pc = "write_output_csv"
    /\ output_csv' = write_output_csv(neighbors, output_csv)
    /\ pc' = "exit"
    /\ UNCHANGED <<cmd, fasta_file, annotation_dir, window_size, genes_of_interest,
                   annotations_db, neighbors, provenance, sumVars>>

NextFind == ParseGoiFasta \/ LoadAllAnnotations \/ FindNeighbors \/ WriteOutputCsv

-----------------------------------------------------------------------------
(* Input files.                                                            *)

SeqsUpTo(S, n) == UNION {[1..k -> S] : k \in 0..n}

Dec(n) == <<n>>

SequenceLine == [gt |-> FALSE, strain |-> "", contig |-> "", start |-> <<>>, end |-> <<>>]

HeaderLines(strains, contigs, starts, ends) ==
    {[gt |-> TRUE, strain |-> s, contig |-> c, start |-> a, end |-> b] :
        s \in strains, c \in contigs, a \in starts, b \in ends}

CommentLine == [skip |-> TRUE, parts |-> <<>>]

GffRow(contig, type, start, end, attributes) ==
    [skip |-> FALSE,
     parts |-> <<contig, "prokka", type, start, end, ".", "+", "0", attributes>>]

ShortRow == [skip |-> FALSE, parts |-> <<"C1", "prokka", "gene">>]

Attr(key, value) == [key |-> key, value |-> value]

GffFiles(strains, contents) ==
    {[strain |-> s, lines |-> l] : s \in strains, l \in contents}

InitFind(fastas, walks, windows) ==
    /\ cmd = "find-neighbors"
    /\ pc = "parse_goi_fasta"
    /\ fasta_file \in fastas
    /\ annotation_dir \in walks
    /\ window_size \in windows
    /\ genes_of_interest = <<>>
    /\ annotations_db = EmptyDict
    /\ neighbors = <<>>
    /\ provenance = <<>>
    /\ output_csv = NoFile
    /\ input_file = [readable |-> FALSE, fieldnames |-> <<>>]
    /\ rows_read = 0
    /\ rows_seen = {}
    /\ strain_data = EmptyDict
    /\ gene_data = EmptyDict
    /\ strains_csv = NoFile
    /\ genes_csv = NoFile

(* Wide coordinates, one GOI, one annotation file of one or two features:  *)
(* the window and the self-exclusion of find_neighbors.                    *)

Coords == 1..MaxCoord

CoordTexts == {Dec(n) : n \in Coords}

FeatureCounts == 1..2

WindowFastas ==
    {[readable |-> TRUE, lines |-> <<l>>] :
        l \in HeaderLines({"S1"}, {"C1"}, CoordTexts, CoordTexts)}

WindowRows ==
    {GffRow("C1", t, a, b, <<Attr("ID", "g1")>>) :
        t \in {"gene", "CDS"}, a \in CoordTexts, b \in CoordTexts}

WindowWalks ==
    {<<f>> : f \in GffFiles({"S1"},
                 UNION {[1..k -> WindowRows] : k \in FeatureCounts})}

InitWindow == InitFind(WindowFastas, WindowWalks, 1..MaxWindow)

SpecWindow == InitWindow /\ [][NextFind]_vars

-----------------------------------------------------------------------------
(* summarize_neighbors.  A value of a csv.DictReader row is [none, s]:     *)
(* None (the column is missing from the header or from a short row) or the *)
(* text s.                                                                 *)

None == [none |-> TRUE, s |-> <<>>]

Str(t) == [none |-> FALSE, s |-> t]

Truthy(v) == ~v.none /\ v.s # <<>>

LastIndex(fieldnames, name) ==
    CHOOSE i \in 1..Len(fieldnames) :
        /\ fieldnames[i] = name
        /\ \A j \in (i + 1)..Len(fieldnames) : fieldnames[j] # name

DictReaderGet(fieldnames, row, name) ==
    IF \A i \in 1..Len(fieldnames) : fieldnames[i] # name THEN None
    ELSE IF LastIndex(fieldnames, name) > Len(row) THEN None
    ELSE Str(row[LastIndex(fieldnames, name)])

AddOverwrite(data, key, member) == Put(data, key, {member})

Add(data, key, member) ==
    IF key \in DOMAIN data THEN Put(data, key, data[key] \cup {member})
    ELSE Put(data, key, {member})

RECURSIVE StrLess(_, _)
StrLess(a, b) ==
    IF b = <<>> THEN FALSE
    ELSE IF a = <<>> THEN TRUE
    ELSE IF Head(a) < Head(b) THEN TRUE
    ELSE IF Head(a) > Head(b) THEN FALSE
    ELSE StrLess(Tail(a), Tail(b))

RECURSIVE sorted_reverse(_)
sorted_reverse(S) ==
    IF S = {} THEN <<>>
    ELSE LET last == CHOOSE x \in S : \A y \in S \ {x} : StrLess(y, x)
         IN  <<last>> \o sorted_reverse(S \ {last})

RECURSIVE sorted(_)
sorted(S) ==
    IF S = {} THEN <<>>
    ELSE LET first == CHOOSE x \in S : \A y \in S \ {x} : StrLess(x, y)
         IN  <<first>> \o sorted(S \ {first})

Largest(S) == IF S = {} THEN 0 ELSE CHOOSE n \in S : \A m \in S : m <= n

PaddingNone(max_size, count) == <<>>

Padding(max_size, count) == [j \in 1..(max_size - count) |-> <<>>]

SummaryRow(key, members, max_size) ==
    LET list == sorted(members)
        count == Len(list)
    IN  <<key, count>> \o list \o Padding(max_size, count)

SummaryFile(data, key_header, count_header, slot_prefix) ==
    LET max_size == Largest({Cardinality(data[k]) : k \in DOMAIN data})
        keys == sorted(DOMAIN data)
    IN  File(<<key_header, count_header>>
                 \o [i \in 1..max_size |-> <<slot_prefix, i>>],
             [i \in 1..Len(keys) |-> SummaryRow(keys[i], data[keys[i]], max_size)])

CellTexts == {<<>>, <<1>>, <<1, 0>>, <<2>>}

RowLengths(fieldnames) == {1, Len(fieldnames)}

TableRow(fieldnames, strain, neighbor, n) ==
    [i \in 1..n |-> IF fieldnames[i] = "goi_strain" THEN strain
                    ELSE IF fieldnames[i] = "neighbor_id" THEN neighbor
                    ELSE TextX]

OpenInput ==
    /\ cmd = "summarize"
    /\ pc = "open"
    /\ pc' = IF input_file.readable THEN "read" ELSE "return"
    /\ UNCHANGED <<cmd, findVars, sumVars>>

ReadRow ==
    /\ cmd = "summarize"
    /\ pc = "read"
    /\ rows_read < MaxTableRows
    /\ input_file.fieldnames # <<>>
    /\ \E s \in CellTexts, g \in CellTexts, n \in RowLengths(input_file.fieldnames) :
          LET row == TableRow(input_file.fieldnames, s, g, n)
              strain == DictReaderGet(input_file.fieldnames, row, "goi_strain")
              neighbor == DictReaderGet(input_file.fieldnames, row, "neighbor_id")
          IN  /\ IF Truthy(strain) /\ Truthy(neighbor)
                 THEN /\ strain_data' = Add(strain_data, strain.s, neighbor.s)
                      /\ gene_data' = Add(gene_data, neighbor.s, strain.s)
                 ELSE UNCHANGED <<strain_data, gene_data>>
              /\ rows_seen' = rows_seen \cup {<<strain, neighbor>>}
    /\ rows_read' = rows_read + 1
    /\ UNCHANGED <<cmd, pc, findVars, input_file, strains_csv, genes_csv>>

ReadFails ==
    /\ cmd = "summarize"
    /\ pc = "read"
    /\ pc' = "return"
    /\ UNCHANGED <<cmd, findVars, sumVars>>

EndOfInput ==
    /\ cmd = "summarize"
    /\ pc = "read"
    /\ pc' = IF DOMAIN strain_data = {} THEN "return" ELSE "write_strains"
    /\ UNCHANGED <<cmd, findVars, sumVars>>

WriteStrainSummary ==
    /\ cmd = "summarize"
    /\ pc = "write_strains"
    /\ strains_csv' = SummaryFile(strain_data, "Strain", "Neighbor_Count", "Neighbor_")
    /\ pc' = "write_genes"
    /\ UNCHANGED <<cmd, findVars, input_file, rows_read, rows_seen, strain_data,
                   gene_data, genes_csv>>

WriteGeneSummary ==
    /\ cmd = "summarize"
    /\ pc = "write_genes"
    /\ genes_csv' = SummaryFile(gene_data, "Gene_Name", "Strain_Count", "Strain_")
    /\ pc' = "return"
    /\ UNCHANGED <<cmd, findVars, input_file, rows_read, rows_seen, strain_data,
                   gene_data, strains_csv>>

NextSummarize ==
    \/ OpenInput
    \/ ReadRow
    \/ ReadFails
    \/ EndOfInput
    \/ WriteStrainSummary
    \/ WriteGeneSummary

Fieldnames ==
    {<<>>, headers, <<"neighbor_id", "goi_strain">>, <<"goi_strain", "goi_contig">>}

InputTables ==
    {[readable |-> FALSE, fieldnames |-> <<>>]}
        \cup {[readable |-> TRUE, fieldnames |-> h] : h \in Fieldnames}

InitSummarize ==
    /\ cmd = "summarize"
    /\ pc = "open"
    /\ fasta_file = [readable |-> FALSE, lines |-> <<>>]
    /\ annotation_dir = <<>>
    /\ window_size = 1
    /\ genes_of_interest = <<>>
    /\ annotations_db = EmptyDict
    /\ neighbors = <<>>
    /\ provenance = <<>>
    /\ output_csv = NoFile
    /\ input_file \in InputTables
    /\ rows_read = 0
    /\ rows_seen = {}
    /\ strain_data = EmptyDict
    /\ gene_data = EmptyDict
    /\ strains_csv = NoFile
    /\ genes_csv = NoFile

-----------------------------------------------------------------------------
(* Either command, on small input files.                                   *)

SmallFastaLines ==
    {SequenceLine}
        \cup HeaderLines({"S1", "S2"}, {"C1"}, {Dec(2)}, {Dec(1)})
        \cup HeaderLines({"S1"}, {"C1"}, {Dec(1)}, {TextX})

SmallFastas ==
    {[readable |-> FALSE, lines |-> <<>>]}
        \cup {[readable |-> TRUE, lines |-> l] : l \in SeqsUpTo(SmallFastaLines, MaxLines)}

SmallGffLines ==
    {CommentLine, ShortRow,
     GffRow("C1", "gene", Dec(1), Dec(2), <<Attr("ID", "g1"), Attr("product", "p1")>>),
     GffRow("C1", "CDS", Dec(2), Dec(2), <<Attr("Name", "n2")>>),
     GffRow("C1", "gene", Dec(2), Dec(3), <<Attr("ID", "g3")>>),
     GffRow("C1", "gene", TextX, Dec(3), <<Attr("ID", "g4")>>),
     GffRow("C2", "exon", Dec(1), Dec(3), <<Attr("ID", "e5")>>)}

SmallWalks ==
    {<<>>} \cup {<<f>> : f \in GffFiles({"S1", "S2"}, SeqsUpTo(SmallGffLines, MaxRows))}

Init ==
    \/ InitFind(SmallFastas, SmallWalks, {1})
    \/ InitSummarize

Next == NextFind \/ NextSummarize

Spec == Init /\ [][Next]_vars

-----------------------------------------------------------------------------
(* A walk that meets several annotation files, well-formed rows only: the  *)
(* index that load_all_annotations builds.                                 *)

WalkFastas ==
    {[readable |-> TRUE, lines |-> <<l>>] :
        l \in HeaderLines({"S1"}, {"C1", "C2"}, {Dec(1)}, {Dec(1)})}

WalkRows ==
    {GffRow("C1", "gene", Dec(1), Dec(2), <<Attr("ID", "g1")>>),
     GffRow("C1", "CDS", Dec(2), Dec(2), <<Attr("ID", "g2")>>),
     GffRow("C2", "gene", Dec(1), Dec(2), <<Attr("ID", "g3")>>)}

WalkFileLengths == 0..2

WalkFiles ==
    GffFiles({"S1", "S2"}, UNION {[1..k -> WalkRows] : k \in WalkFileLengths})

InitWalk == InitFind(WalkFastas, SeqsUpTo(WalkFiles, MaxFiles), {1})

SpecWalk == InitWalk /\ [][NextFind]_vars

-----------------------------------------------------------------------------
(* Properties of find_neighbors.                                           *)

Range(f) == {f[i] : i \in DOMAIN f}

Abs(n) == IF n < 0 THEN -n ELSE n

FoundNeighbors == cmd = "find-neighbors" /\ pc \in {"write_output_csv", "exit"}

Indexed(goi) ==
    /\ goi.strain \in DOMAIN annotations_db
    /\ goi.contig \in DOMAIN annotations_db[goi.strain]

SameCoords(goi, gene) == gene.start = goi.start /\ gene.end = goi.end

(* C1: for every GOI whose strain and contig are indexed and every feature *)
(* of that contig whose (start, end) differs from the GOI's, a record is   *)
(* emitted exactly when the distance between the two exact midpoints is at *)
(* most window_size, both ends of the window included:                     *)
(* |(feature_start + feature_end) - (goi_start + goi_end)| <= 2 * window.  *)
C1_CenterInWindow ==
    FoundNeighbors =>
        \A g \in 1..Len(genes_of_interest) :
            LET goi == genes_of_interest[g]
            IN  Indexed(goi) =>
                    \A k \in 1..Len(annotations_db[goi.strain][goi.contig]) :
                        LET gene == annotations_db[goi.strain][goi.contig][k]
                        IN  ~SameCoords(goi, gene) =>
                                (<<g, k>> \in Range(provenance)
                                 <=> Abs((gene.start + gene.end) - (goi.start + goi.end))
                                         <= 2 * window_size)

(* A feature whose midpoint lies exactly on a window boundary, the GOI     *)
(* having a fractional midpoint, has been emitted.                         *)
C1_Witness ==
    /\ FoundNeighbors
    /\ \E i \in 1..Len(neighbors) :
           LET r == neighbors[i]
           IN  /\ (r.goi_start + r.goi_end) % 2 = 1
               /\ Abs((r.neighbor_start + r.neighbor_end) - (r.goi_start + r.goi_end))
                      = 2 * window_size

(* C2: no record of a GOI carries the GOI's own (start, end) as neighbor   *)
(* coordinates: every feature of the GOI's contig with those coordinates   *)
(* is left out, whatever its id or type and however many there are.        *)
C2_SelfExclusion ==
    FoundNeighbors =>
        /\ \A i \in 1..Len(neighbors) :
               ~(/\ neighbors[i].neighbor_start = neighbors[i].goi_start
                 /\ neighbors[i].neighbor_end = neighbors[i].goi_end)
        /\ \A g \in 1..Len(genes_of_interest) :
               LET goi == genes_of_interest[g]
               IN  Indexed(goi) =>
                       \A k \in 1..Len(annotations_db[goi.strain][goi.contig]) :
                           SameCoords(goi, annotations_db[goi.strain][goi.contig][k])
                               => <<g, k>> \notin Range(provenance)

(* A gene and a CDS, both with the coordinates of the GOI, were scanned.   *)
C2_Witness ==
    /\ FoundNeighbors
    /\ \E g \in 1..Len(genes_of_interest) :
           LET goi == genes_of_interest[g]
           IN  /\ Indexed(goi)
               /\ \E k, l \in 1..Len(annotations_db[goi.strain][goi.contig]) :
                      LET a == annotations_db[goi.strain][goi.contig][k]
                          b == annotations_db[goi.strain][goi.contig][l]
                      IN  /\ SameCoords(goi, a) /\ SameCoords(goi, b)
                          /\ a.type = "gene" /\ b.type = "CDS"

(* C6: the records of find_neighbors are in GOI list order first and in    *)
(* the order of the contig's feature list second, and each record is the   *)
(* one of its GOI and its feature.                                         *)
C6_OutputOrder ==
    FoundNeighbors =>
        /\ Len(provenance) = Len(neighbors)
        /\ \A i, j \in 1..Len(provenance) :
               i < j => \/ provenance[i][1] < provenance[j][1]
                        \/ /\ provenance[i][1] = provenance[j][1]
                           /\ provenance[i][2] < provenance[j][2]
        /\ \A i \in 1..Len(provenance) :
               LET goi == genes_of_interest[provenance[i][1]]
               IN  neighbors[i] =
                       NeighborRecord(goi,
                           annotations_db[goi.strain][goi.contig][provenance[i][2]])

(* Two GOIs have two neighbors each.                                       *)
C6_Witness ==
    /\ FoundNeighbors
    /\ \E k, l \in 1..MaxRows :
           /\ k < l
           /\ {<<1, k>>, <<1, l>>, <<2, k>>, <<2, l>>} \subseteq Range(provenance)

-----------------------------------------------------------------------------
(* Properties of load_all_annotations.                                     *)

Loaded == cmd = "find-neighbors" /\ pc \in {"find_neighbors", "write_output_csv", "exit"}

LastFileOf(strain) ==
    CHOOSE i \in 1..Len(annotation_dir) :
        /\ annotation_dir[i].strain = strain
        /\ \A j \in (i + 1)..Len(annotation_dir) : annotation_dir[j].strain # strain

(* C3, as claimed: after the walk, the index entry of a strain holds the   *)
(* contig keys of every file of that strain, and a contig takes the        *)
(* feature list of the last file that has it.                              *)
C3_MergedContigs ==
    Loaded =>
        \A i \in 1..Len(annotation_dir) :
            LET file == annotation_dir[i]
                contigs == DOMAIN parse_gff(file).contig_db
            IN  /\ file.strain \in DOMAIN annotations_db
                /\ contigs \subseteq DOMAIN annotations_db[file.strain]
                /\ \A c \in contigs :
                       (\A j \in (i + 1)..Len(annotation_dir) :
                           annotation_dir[j].strain = file.strain
                               => c \notin DOMAIN parse_gff(annotation_dir[j]).contig_db)
                       => annotations_db[file.strain][c] = parse_gff(file).contig_db[c]

(* C3, amended: after the walk, the index entry of a strain is the parse   *)
(* result of the last file of that strain alone; the contigs that only an  *)
(* earlier file of the strain has are not in the index.                    *)
C3_LastFileReplaces ==
    Loaded =>
        /\ DOMAIN annotations_db = {annotation_dir[i].strain : i \in 1..Len(annotation_dir)}
        /\ \A strain \in DOMAIN annotations_db :
               annotations_db[strain] = parse_gff(annotation_dir[LastFileOf(strain)]).contig_db

(* Two files of one strain were loaded, the earlier with a contig that the *)
(* later does not have.                                                    *)
C3_Witness ==
    /\ Loaded
    /\ \E i, j \in 1..Len(annotation_dir) :
           /\ i < j
           /\ annotation_dir[i].strain = annotation_dir[j].strain
           /\ DOMAIN parse_gff(annotation_dir[j]).contig_db # {}
           /\ ~(DOMAIN parse_gff(annotation_dir[i]).contig_db
                   \subseteq DOMAIN parse_gff(annotation_dir[j]).contig_db)

-----------------------------------------------------------------------------
(* Properties of the error handling.                                       *)

(* C4: with a missing or unreadable top-level input file the stage ends    *)
(* with a diagnostic, never with an unhandled fault, and writes no output  *)
(* file; for the FASTA file of find-neighbors and for the input table of   *)
(* summarize.                                                              *)
C4_CleanAbort ==
    /\ (cmd = "find-neighbors" /\ ~fasta_file.readable)
           => pc # "fault" /\ ~output_csv.exists
    /\ (cmd = "summarize" /\ ~input_file.readable)
           => pc \in {"open", "return"} /\ ~strains_csv.exists /\ ~genes_csv.exists

WellFormedHeader(line) == ~line.gt \/ HEADER_REGEX(line)

WellFormedRow(line) ==
    \/ line.skip
    \/ /\ Len(line.parts) >= 9
       /\ IsDigits(line.parts[4])
       /\ IsDigits(line.parts[5])

WithoutBadRows(files) ==
    [i \in 1..Len(files) |->
        [strain |-> files[i].strain, lines |-> SelectSeq(files[i].lines, WellFormedRow)]]

(* C5: no per-record problem aborts find-neighbors: with a readable FASTA  *)
(* file the stage never faults, and it ends with the records it finds when *)
(* the malformed header lines and GFF rows are taken out of the input.     *)
C5_RecordErrorsContained ==
    (cmd = "find-neighbors" /\ fasta_file.readable) =>
        /\ pc # "fault"
        /\ pc = "exit" =>
               LET results ==
                       find_neighbors(
                           parse_goi_fasta(SelectSeq(fasta_file.lines, WellFormedHeader)),
                           load_all_annotations(WithoutBadRows(annotation_dir)).db,
                           window_size)
               IN  neighbors = [i \in 1..Len(results) |-> results[i].record]

(* C9: no output file holds a header row and no data row: find-neighbors   *)
(* that ends with zero records has created no file, and summarize that has *)
(* read no row with a non-empty goi_strain and a non-empty neighbor_id     *)
(* returns with neither summary created.                                   *)
C9_NoHeaderOnlyFile ==
    /\ output_csv.exists => Len(output_csv.rows) >= 1
    /\ strains_csv.exists => Len(strains_csv.rows) >= 1
    /\ genes_csv.exists => Len(genes_csv.rows) >= 1
    /\ (cmd = "find-neighbors" /\ pc = "exit" /\ neighbors = <<>>) => ~output_csv.exists
    /\ (/\ cmd = "summarize"
        /\ pc \notin {"open", "read"}
        /\ \A p \in rows_seen : ~(Truthy(p[1]) /\ Truthy(p[2])))
           => pc = "return" /\ ~strains_csv.exists /\ ~genes_csv.exists

(* find-neighbors has run to its end with GOIs and an empty index.         *)
C9_Witness ==
    /\ cmd = "find-neighbors"
    /\ pc = "exit"
    /\ genes_of_interest # <<>>
    /\ DOMAIN annotations_db = {}
    /\ ~output_csv.exists

-----------------------------------------------------------------------------
(* Properties of summarize_neighbors.                                      *)

ValidPairs == {p \in rows_seen : Truthy(p[1]) /\ Truthy(p[2])}

NeighborsOf(strain) == {p[2].s : p \in {q \in ValidPairs : q[1].s = strain}}

StrainsOf(neighbor) == {p[1].s : p \in {q \in ValidPairs : q[2].s = neighbor}}

LexBefore(a, b) ==
    \E i \in 1..Len(b) :
        /\ \A j \in 1..(i - 1) : j <= Len(a) /\ a[j] = b[j]
        /\ i > Len(a) \/ a[i] < b[i]

Slots(row) == SubSeq(row, 3, 2 + row[2])

TextsSeen == {p[1].s : p \in ValidPairs} \cup {p[2].s : p \in ValidPairs}

GroupedAs(data, file, group) ==
    /\ DOMAIN data = {k \in TextsSeen : group[k] # {}}
    /\ \A k \in DOMAIN data : data[k] = group[k]
    /\ file.exists =>
           /\ {file.rows[i][1] : i \in 1..Len(file.rows)} = DOMAIN data
           /\ \A i \in 1..Len(file.rows) :
                  LET row == file.rows[i]
                  IN  /\ i > 1 => LexBefore(file.rows[i - 1][1], row[1])
                      /\ row[2] = Cardinality(group[row[1]])
                      /\ Range(Slots(row)) = group[row[1]]
                      /\ \A j \in 2..row[2] : LexBefore(Slots(row)[j - 1], Slots(row)[j])

(* C7: both groupings and both summaries are determined by the set of      *)
(* (goi_strain, neighbor_id) pairs read, whatever their order and number   *)
(* of repetitions: each pair counts once and is listed once, the rows are  *)
(* in ascending key order and each slot list in ascending lexicographic    *)
(* order.                                                                  *)
C7_SetOfPairsOnly ==
    cmd = "summarize" =>
        /\ GroupedAs(strain_data, strains_csv, [k \in TextsSeen |-> NeighborsOf(k)])
        /\ GroupedAs(gene_data, genes_csv, [k \in TextsSeen |-> StrainsOf(k)])

(* Both summaries are written, more rows were read than there are pairs,   *)
(* and a strain has the neighbors "10" and "2", in this order.             *)
C7_Witness ==
    /\ cmd = "summarize"
    /\ genes_csv.exists
    /\ rows_read > Cardinality(rows_seen)
    /\ \E i \in 1..Len(strains_csv.rows) :
           /\ strains_csv.rows[i][2] >= 2
           /\ strains_csv.rows[i][3] = <<1, 0>>
           /\ strains_csv.rows[i][4] = <<2>>

Padded(file) ==
    file.exists =>
        LET max_group_size == Largest({file.rows[i][2] : i \in 1..Len(file.rows)})
        IN  /\ Len(file.header) = 2 + max_group_size
            /\ \A i \in 1..Len(file.rows) :
                   LET row == file.rows[i]
                   IN  /\ Len(row) = 2 + max_group_size
                       /\ \A j \in 3..Len(row) : (row[j] = <<>>) <=> (j > 2 + row[2])
            /\ \E i \in 1..Len(file.rows) :
                   \A j \in 3..Len(file.rows[i]) : file.rows[i][j] # <<>>

(* C8: in each summary the header and every data row have 2 + the size of  *)
(* the largest group columns; a row has its members first and then only    *)
(* empty cells, and some row has no empty cell.                            *)
C8_PaddingInvariant == Padded(strains_csv) /\ Padded(genes_csv)

(* Both summaries are written and each has a padded row.                   *)
C8_Witness ==
    /\ genes_csv.exists
    /\ \E i \in 1..Len(strains_csv.rows) : strains_csv.rows[i][Len(strains_csv.header)] = <<>>
    /\ \E i \in 1..Len(genes_csv.rows) : genes_csv.rows[i][Len(genes_csv.header)] = <<>>

RECURSIVE SumOfCounts(_)
SumOfCounts(rows) == IF rows = <<>> THEN 0 ELSE Head(rows)[2] + SumOfCounts(Tail(rows))

(* C10: the two groupings are inverses of each other after any sequence of *)
(* rows, a row with a missing or empty goi_strain or neighbor_id is in     *)
(* neither, the gene summary is written whenever the strain summary is,    *)
(* and the two Count columns have the same sum.                            *)
C10_InverseGroupings ==
    cmd = "summarize" =>
        /\ \A s \in DOMAIN strain_data :
               /\ s # <<>>
               /\ strain_data[s] # {}
               /\ \A g \in strain_data[s] : g \in DOMAIN gene_data /\ s \in gene_data[g]
        /\ \A g \in DOMAIN gene_data :
               /\ g # <<>>
               /\ gene_data[g] # {}
               /\ \A s \in gene_data[g] : s \in DOMAIN strain_data /\ g \in strain_data[s]
        /\ pc = "return" =>
               /\ strains_csv.exists <=> genes_csv.exists
               /\ SumOfCounts(strains_csv.rows) = SumOfCounts(genes_csv.rows)

(* Both summaries are written after rows with an empty and with a missing  *)
(* value were read besides valid ones.                                     *)
C10_Witness ==
    /\ cmd = "summarize"
    /\ pc = "return"
    /\ genes_csv.exists
    /\ \E p \in rows_seen : p[2].none
    /\ \E p \in rows_seen : ~p[1].none /\ p[1].s = <<>>
    /\ Cardinality(ValidPairs) >= 2

=============================================================================
